---------------------------- MODULE Spec2Model ----------------------------
(***************************************************************************)
(* A model of scarlet's color.rs: the XYZColor and RGBColor value types,   *)
(* the Color trait (from_xyz, into_xyz, convert, write_colored_str), the   *)
(* Vec conversions and the hex formatter.                                  *)
(*                                                                         *)
(* f64 is modelled in decimal fixed point: the f64 value v is the integer  *)
(* v * ONE, and every arithmetic operation rounds its result towards zero  *)
(* to a multiple of 1/ONE.  NaN and the infinities are not represented,    *)
(* and magnitudes stay below 2^31 / ONE; intermediate products are split   *)
(* so that they stay below 2^31.  A stored channel can differ from the     *)
(* f64 one only where 255 * c lies within about 0.01 of a half.            *)
(***************************************************************************)
EXTENDS Integers, Sequences, FiniteSets, TLC

VARIABLES call, pc, res

vars == <<call, pc, res>>

---------------------------------------------------------------------------
(* f64 arithmetic in fixed point                                          *)

\* the f64 value 1.0
ONE == 1000000

\* ONE = K * K: operands are split at K to multiply without overflow
K == 1000

\* the f64 literal n.ffffff, given as n and its six decimals
Lit(n, f) == n * ONE + f

Abs(n) == IF n < 0 THEN 0 - n ELSE n

\* a * b for a, b >= 0, rounded down
MulMag(a, b) ==
    LET a1 == a \div K
        a0 == a % K
        b1 == b \div K
        b0 == b % K
    IN  a1 * b1 + ((a1 * b0 + a0 * b1 + ((a0 * b0) \div K)) \div K)

\* a * b on f64: the magnitude is rounded, the sign is exact
MulF(a, b) ==
    IF (a < 0) = (b < 0) THEN MulMag(Abs(a), Abs(b))
    ELSE 0 - MulMag(Abs(a), Abs(b))

RECURSIVE LongDiv(_, _, _, _)
\* q followed by the next n decimal digits of r / b, for 0 <= r < b; each
\* digit step multiplies the remainder by 5 and then by 2
LongDiv(q, r, b, n) ==
    IF n = 0 THEN q
    ELSE LET r5  == r * 5
             r10 == (r5 % b) * 2
             d   == (r5 \div b) * 2 + (r10 \div b)
         IN  LongDiv(q * 10 + d, r10 % b, b, n - 1)

\* a / b on f64, b > 0: the magnitude is rounded, the sign is exact
DivF(a, b) ==
    IF a >= 0 THEN LongDiv(a \div b, a % b, b, 6)
    ELSE 0 - LongDiv((0 - a) \div b, (0 - a) % b, b, 6)

RECURSIVE SqrtSearch(_, _, _)
\* the largest y in lo..hi with y * y <= r
SqrtSearch(r, lo, hi) ==
    IF lo >= hi THEN lo
    ELSE LET m == (lo + hi + 1) \div 2
         IN  IF MulF(m, m) <= r THEN SqrtSearch(r, m, hi)
             ELSE SqrtSearch(r, lo, m - 1)

\* f64::sqrt for r >= 0
SqrtF(r) ==
    IF r < ONE THEN SqrtSearch(r, r, ONE)
    ELSE SqrtSearch(r, ONE, IF r < 46340 * K THEN r ELSE 46340 * K)

RECURSIVE IntPow(_, _)
\* x^n for an integer n >= 0
IntPow(x, n) == IF n = 0 THEN ONE ELSE MulF(IntPow(x, n - 1), x)

RECURSIVE FracPow(_, _, _)
\* x^f for 0 <= f < 1, from the binary digits of f: r is x^(2^-i) at digit i
FracPow(r, f, n) ==
    IF f = 0 \/ n = 0 THEN ONE
    ELSE LET s == SqrtF(r)
         IN  IF 2 * f >= ONE THEN MulF(s, FracPow(s, 2 * f - ONE, n - 1))
             ELSE FracPow(s, 2 * f, n - 1)

\* f64::powf(x, e) for x >= 0 and e >= 0 (the only uses in color.rs)
powf(x, e) == MulF(IntPow(x, e \div ONE), FracPow(x, e % ONE, 20))

\* round, were halves rounded to the even neighbour
round_half_even(x) ==
    LET lo == Abs(x) \div ONE
        fr == Abs(x) % ONE
        n  == IF 2 * fr > ONE \/ (2 * fr = ONE /\ lo % 2 = 1) THEN lo + 1 ELSE lo
    IN  IF x >= 0 THEN n ELSE 0 - n

\* f64::round: to the nearest integer, halves away from zero
round(x) ==
    IF x >= 0 THEN (x + (ONE \div 2)) \div ONE
    ELSE 0 - ((0 - x + (ONE \div 2)) \div ONE)

\* `as u8` of an integral f64: saturates outside 0..255
as_u8(n) == IF n < 0 THEN 0 ELSE IF n > 255 THEN 255 ELSE n

\* `as f64` of a u8
as_f64(n) == n * ONE

---------------------------------------------------------------------------
(* Values                                                                  *)

XYZColor(x, y, z) == [T |-> "XYZColor", x |-> x, y |-> y, z |-> z]

RGBColor(r, g, b) == [T |-> "RGBColor", r |-> r, g |-> g, b |-> b]

\* a Vec<_>
Vec(v) == [T |-> "Vec", v |-> v]

\* a String, as the sequence of its characters
String(s) == [T |-> "String", s |-> s]

\* the outcome of a call that panicked: no value is produced
Panic == [T |-> "panic"]

\* the bounds check of the 0-based index expression v[i]
InBounds(v, i) == i < Len(v)

---------------------------------------------------------------------------
(* Vec conversions                                                         *)

XYZColor_from(nums) ==
    IF InBounds(nums, 0) /\ InBounds(nums, 1) /\ InBounds(nums, 2)
    THEN XYZColor(nums[1], nums[2], nums[3])
    ELSE Panic

XYZColor_into(self) == Vec(<<self.x, self.y, self.z>>)

RGBColor_into(self) == Vec(<<self.r, self.g, self.b>>)

\* RGBColor_from, were the elements read at the indices 1, 2, 3
RGBColor_from_shifted(nums) ==
    IF InBounds(nums, 1) /\ InBounds(nums, 2) /\ InBounds(nums, 3)
    THEN RGBColor(nums[2], nums[3], nums[4])
    ELSE Panic

RGBColor_from(nums) ==
    IF InBounds(nums, 0) /\ InBounds(nums, 1) /\ InBounds(nums, 2)
    THEN RGBColor(nums[1], nums[2], nums[3])
    ELSE Panic

---------------------------------------------------------------------------
(* impl Color for XYZColor                                                 *)

XYZ_from_xyz(xyz) == xyz

XYZ_into_xyz(self) == self

---------------------------------------------------------------------------
(* impl Color for RGBColor                                                 *)

rgb_lin_vec(xyz) ==
    << MulF(Lit(3, 240600), xyz.x) - MulF(Lit(1, 537200), xyz.y)
           - MulF(Lit(0, 498600), xyz.z),
       MulF(0 - Lit(0, 968900), xyz.x) + MulF(Lit(1, 875800), xyz.y)
           + MulF(Lit(0, 41500), xyz.z),
       MulF(Lit(0, 55700), xyz.x) - MulF(Lit(0, 204000), xyz.y)
           + MulF(Lit(1, 57000), xyz.z) >>

\* gamma_correct, were the exponent 1/2.2
gamma_correct_22(x) ==
    IF x <= Lit(0, 3130)
    THEN MulF(Lit(12, 920000), x)
    ELSE MulF(Lit(1, 55000), powf(x, DivF(Lit(1, 0), Lit(2, 200000))))
             - Lit(0, 55000)

\* the threshold 0.0031308 lies between the representable 0.003130 and
\* 0.003131, so x <= 0.0031308 is x <= 0.003130 on representable x
gamma_correct(x) ==
    IF x <= Lit(0, 3130)
    THEN MulF(Lit(12, 920000), x)
    ELSE MulF(Lit(1, 55000), powf(x, DivF(Lit(1, 0), Lit(2, 400000))))
             - Lit(0, 55000)

\* rgb_lin_vec.iter().map(gamma_correct).collect()
float_vec(xyz) ==
    LET v == rgb_lin_vec(xyz) IN [i \in DOMAIN v |-> gamma_correct(v[i])]

\* clamp, were the two bounds returned the wrong way round
clamp_swapped(x) ==
    IF x >= Lit(1, 0) THEN Lit(0, 0)
    ELSE IF x <= Lit(0, 0) THEN Lit(1, 0)
    ELSE x

clamp(x) ==
    IF x >= Lit(1, 0) THEN Lit(1, 0)
    ELSE IF x <= Lit(0, 0) THEN Lit(0, 0)
    ELSE x

\* the closure |x| (x * 255.0).round() as u8
to_u8(x) == as_u8(round(MulF(x, Lit(255, 0))))

\* RGB_from_xyz, were the channels read at the indices 1, 2, 3
RGB_from_xyz_shifted(xyz) ==
    LET v   == float_vec(xyz)
        rgb == [i \in DOMAIN v |-> to_u8(clamp(v[i]))]
    IN  IF InBounds(rgb, 1) /\ InBounds(rgb, 2) /\ InBounds(rgb, 3)
        THEN RGBColor(rgb[2], rgb[3], rgb[4])
        ELSE Panic

RGB_from_xyz(xyz) ==
    LET v   == float_vec(xyz)
        rgb == [i \in DOMAIN v |-> to_u8(clamp(v[i]))]
    IN  IF InBounds(rgb, 0) /\ InBounds(rgb, 1) /\ InBounds(rgb, 2)
        THEN RGBColor(rgb[1], rgb[2], rgb[3])
        ELSE Panic

\* uncorrect_gamma, were the linear segment missing
uncorrect_gamma_nolinear(x) ==
    powf(DivF(x + Lit(0, 55000), Lit(1, 55000)), Lit(2, 400000))

uncorrect_gamma(x) ==
    IF x <= Lit(0, 40450)
    THEN DivF(x, Lit(12, 920000))
    ELSE powf(DivF(x + Lit(0, 55000), Lit(1, 55000)), Lit(2, 400000))

\* scale, were the divisor 256.0
scale_256(x) == DivF(as_f64(x), Lit(256, 0))

\* the closure |x| (*x as f64) / 255.0
scale(x) == DivF(as_f64(x), Lit(255, 0))

scaled_vec(self) ==
    LET v == <<self.r, self.g, self.b>> IN [i \in DOMAIN v |-> scale(v[i])]

rgb_vec(self) ==
    LET v == scaled_vec(self) IN [i \in DOMAIN v |-> uncorrect_gamma(v[i])]

\* RGB_into_xyz, were the matrix that of from_xyz
RGB_into_xyz_forward(self) ==
    LET v == rgb_vec(self)
        m == rgb_lin_vec(XYZColor(v[1], v[2], v[3]))
    IN  XYZColor(m[1], m[2], m[3])

RGB_into_xyz(self) ==
    LET v == rgb_vec(self)
    IN  IF InBounds(v, 0) /\ InBounds(v, 1) /\ InBounds(v, 2)
        THEN XYZColor(
               MulF(Lit(0, 412400), v[1]) + MulF(Lit(0, 357600), v[2])
                   + MulF(Lit(0, 180500), v[3]),
               MulF(Lit(0, 212600), v[1]) + MulF(Lit(0, 715200), v[2])
                   + MulF(Lit(0, 72200), v[3]),
               MulF(Lit(0, 19300), v[1]) + MulF(Lit(0, 119200), v[2])
                   + MulF(Lit(0, 950500), v[3]))
        ELSE Panic

---------------------------------------------------------------------------
(* trait Color                                                             *)

\* T::from_xyz
from_xyz(T, xyz) ==
    IF T = "XYZColor" THEN XYZ_from_xyz(xyz) ELSE RGB_from_xyz(xyz)

\* self.into_xyz()
into_xyz(self) ==
    IF self.T = "XYZColor" THEN XYZ_into_xyz(self) ELSE RGB_into_xyz(self)

\* self.convert::<T>()
convert(self, T) ==
    LET xyz == into_xyz(self)
    IN  IF xyz.T = "panic" THEN Panic ELSE from_xyz(T, xyz)

---------------------------------------------------------------------------
(* Formatting                                                              *)

\* the byte 0x1B
ESC == "ESC"

Digits == <<"0", "1", "2", "3", "4", "5", "6", "7", "8", "9",
            "A", "B", "C", "D", "E", "F">>

RECURSIVE Radix(_, _)
\* the digits of n >= 0 in the given base, most significant first
Radix(n, base) ==
    IF n < base THEN <<Digits[n + 1]>>
    ELSE Radix(n \div base, base) \o <<Digits[(n % base) + 1]>>

RECURSIVE PadZero(_, _)
\* the width-w, zero-flagged padding of a formatted number
PadZero(s, w) == IF Len(s) >= w THEN s ELSE PadZero(<<"0">> \o s, w)

\* Fmt02X, were the width left out: format!("{:X}", n)
FmtX(n) == Radix(n, 16)

\* format!("{:02X}", n)
Fmt02X(n) == PadZero(Radix(n, 16), 2)

\* format!("{}", n) of a u8
FmtDec(n) == Radix(n, 10)

\* Display of termion's Fg(Rgb(r, g, b)): CSI 38;2;r;g;b m
Fg_Rgb(r, g, b) ==
    <<ESC, "[", "3", "8", ";", "2", ";">> \o FmtDec(r) \o <<";">>
        \o FmtDec(g) \o <<";">> \o FmtDec(b) \o <<"m">>

\* Display of termion's Fg(Reset): CSI 39 m
Fg_Reset == <<ESC, "[", "3", "9", "m">>

\* base_write_colored_str, were the reset written before the text
base_write_colored_str_early_reset(self, text) ==
    String(Fg_Rgb(self.r, self.g, self.b) \o Fg_Reset \o text)

base_write_colored_str(self, text) ==
    String(Fg_Rgb(self.r, self.g, self.b) \o text \o Fg_Reset)

to_string(self) ==
    String(<<"#">> \o Fmt02X(self.r) \o Fmt02X(self.g) \o Fmt02X(self.b))

\* self.write_colored_str(text)
write_colored_str(self, text) ==
    LET rgb == convert(self, "RGBColor")
    IN  IF rgb.T = "panic" THEN Panic ELSE base_write_colored_str(rgb, text)

---------------------------------------------------------------------------
(* The calls that are made: the inputs of the tests and bounded samples    *)

\* Vecs handed to From<Vec<_>> have at most this many elements
MaxVecLen == 4

\* texts other than the tests' have at most this many characters
MaxTextLen == 2

\* sampled RGB channels are the multiples of 255 / RGBGridN
RGBGridN == 7

\* sampled clamped channel values are the multiples of 1 / RoundGridN
RoundGridN == 40

Seqs(S, n) == UNION {[1..k -> S] : k \in 0..n}

\* tests::xyz_to_rgb
TestXYZ == XYZColor(Lit(0, 418740), Lit(0, 219670), Lit(0, 56490))

\* tests::rgb_to_xyz
TestRGB == RGBColor(45, 28, 156)

\* tests::test_xyz_color_display: the colour at row i, column j
GridXYZ(i, j) ==
    XYZColor(DivF(MulF(as_f64(i), Lit(0, 940000)), Lit(20, 0)),
             Lit(0, 500000),
             DivF(MulF(as_f64(j), Lit(1, 88830)), Lit(20, 0)))

GridXYZs == {GridXYZ(i, j) : i \in 0..20, j \in 0..20}

\* tests::can_display_colors
DisplayRGBs == {RGBColor(i * 16, j * 16, 128) : i \in 0..7, j \in 0..7}

\* tests::test_rgb_to_string
StringRGBs == {RGBColor(0, 0, 0), RGBColor(244, 182, 33), RGBColor(0, 255, 0)}

\* the character of the tests' text, U+25A0
Square == "BLACK_SQUARE"

\* components outside the nominal range: negative, and far above 1
WildF64 == {0 - Lit(30, 0), 0 - Lit(0, 250000), Lit(0, 0), Lit(1, 0),
            Lit(30, 0)}

WildXYZs == {XYZColor(x, y, z) : x \in WildF64, y \in WildF64, z \in WildF64}

XYZInputs == {TestXYZ} \cup GridXYZs \cup WildXYZs

ChanGrid == {(i * 255) \div RGBGridN : i \in 0..RGBGridN}

\* channels on both sides of the decoding threshold 0.04045 * 255
EdgeChans == {0, 10, 11, 255}

RGBInputs ==
    {RGBColor(r, g, b) : r \in ChanGrid, g \in ChanGrid, b \in ChanGrid}
    \cup {RGBColor(r, g, b) : r \in EdgeChans, g \in EdgeChans, b \in EdgeChans}
    \cup {TestRGB} \cup DisplayRGBs \cup StringRGBs

Colors == XYZInputs \cup RGBInputs

Types == {"XYZColor", "RGBColor"}

VecF64s == Seqs({0 - Lit(1, 500000), Lit(0, 250000), Lit(0, 500000)}, MaxVecLen)

VecU8s == Seqs({0, 7, 255}, MaxVecLen)

Texts == Seqs({"x", ESC}, MaxTextLen)

\* clamped channel values: the grid, and the exact halves k + 0.5 of
\* 255 * c with their neighbours
RoundInputs ==
    {(i * ONE) \div RoundGridN : i \in 0..RoundGridN}
    \cup {((2 * k + 1) * ONE) \div 510 + d : k \in {25, 76, 127, 178, 229},
                                              d \in {-1, 0, 1}}

Call(op, self, T, text) == [op |-> op, self |-> self, T |-> T, text |-> text]

Calls ==
    {Call("XYZColor::from", Vec(v), "XYZColor", <<>>) : v \in VecF64s}
    \cup {Call("XYZColor::into", c, "Vec", <<>>) : c \in XYZInputs}
    \cup {Call("RGBColor::from", Vec(v), "RGBColor", <<>>) : v \in VecU8s}
    \cup {Call("RGBColor::into", c, "Vec", <<>>) : c \in RGBInputs}
    \cup {Call("from_xyz", c, T, <<>>) : c \in XYZInputs, T \in Types}
    \cup {Call("into_xyz", c, "XYZColor", <<>>) : c \in Colors}
    \cup {Call("convert", c, T, <<>>) : c \in Colors, T \in Types}
    \cup {Call("write_colored_str", c, "String", <<Square>>) : c \in Colors}
    \cup {Call("write_colored_str", c, "String", t) :
              c \in {TestXYZ, TestRGB} \cup StringRGBs, t \in Texts}
    \cup {Call("to_string", c, "String", <<>>) : c \in RGBInputs}
    \cup {Call("to_u8", c, "u8", <<>>) : c \in RoundInputs}

---------------------------------------------------------------------------
(* The state machine: one call is made and returns or panics               *)

None == [T |-> "none"]

Init ==
    /\ call \in Calls
    /\ pc = "call"
    /\ res = None

Return(v) ==
    /\ pc = "call"
    /\ res' = v
    /\ pc' = IF v.T = "panic" THEN "panicked" ELSE "returned"
    /\ UNCHANGED call

Do_XYZColor_from == call.op = "XYZColor::from" /\ Return(XYZColor_from(call.self.v))

Do_XYZColor_into == call.op = "XYZColor::into" /\ Return(XYZColor_into(call.self))

Do_RGBColor_from == call.op = "RGBColor::from" /\ Return(RGBColor_from(call.self.v))

Do_RGBColor_into == call.op = "RGBColor::into" /\ Return(RGBColor_into(call.self))

Do_from_xyz == call.op = "from_xyz" /\ Return(from_xyz(call.T, call.self))

Do_into_xyz == call.op = "into_xyz" /\ Return(into_xyz(call.self))

Do_convert == call.op = "convert" /\ Return(convert(call.self, call.T))

Do_write_colored_str ==
    call.op = "write_colored_str" /\ Return(write_colored_str(call.self, call.text))

Do_to_string == call.op = "to_string" /\ Return(to_string(call.self))

Do_to_u8 == call.op = "to_u8" /\ Return([T |-> "u8", n |-> to_u8(call.self)])

Next ==
    \/ Do_XYZColor_from
    \/ Do_XYZColor_into
    \/ Do_RGBColor_from
    \/ Do_RGBColor_into
    \/ Do_from_xyz
    \/ Do_into_xyz
    \/ Do_convert
    \/ Do_write_colored_str
    \/ Do_to_string
    \/ Do_to_u8

Spec == Init /\ [][Next]_vars

---------------------------------------------------------------------------
(* Claims                                                                  *)

\* the call has returned or panicked
Done == pc # "call"

\* C1: converting a value to its own type returns it unchanged: from_xyz,
\* into_xyz and convert on XYZColor return their argument, and every
\* RGBColor c has RGBColor::from_xyz(c.into_xyz()) = c.
C1_SameTypeIdentity ==
    /\ (Done /\ call.op = "convert" /\ call.T = call.self.T)
           => (pc = "returned" /\ res = call.self)
    /\ (Done /\ call.op = "from_xyz" /\ call.T = "XYZColor") => res = call.self
    /\ (Done /\ call.op = "into_xyz" /\ call.self.T = "XYZColor")
           => res = call.self

C1_Witness ==
    /\ pc = "returned"
    /\ call.op = "convert"
    /\ call.T = "RGBColor"
    /\ call.self = RGBColor(10, 11, 255)
    /\ res = RGBColor(10, 11, 255)

\* the channels of an RGBColor, in order
Channels(c) == <<c.r, c.g, c.b>>

\* C2: in RGBColor::from_xyz each channel whose gamma-encoded value is >= 1
\* is stored as 255, each whose encoded value is <= 0 is stored as 0, and
\* every stored channel lies in 0..255.
C2_ClampBeforeCast ==
    (Done /\ call.op = "from_xyz" /\ call.T = "RGBColor") =>
        /\ pc = "returned"
        /\ \A i \in 1..3 :
              LET e  == float_vec(call.self)[i]
                  ch == Channels(res)[i]
              IN  /\ ch \in 0..255
                  /\ e >= ONE => ch = 255
                  /\ e <= 0 => ch = 0

C2_Witness ==
    /\ pc = "returned"
    /\ call.op = "from_xyz"
    /\ call.T = "RGBColor"
    /\ \E i, j, k \in 1..3 :
          /\ float_vec(call.self)[i] > ONE /\ Channels(res)[i] = 255
          /\ float_vec(call.self)[j] < 0 /\ Channels(res)[j] = 0
          /\ float_vec(call.self)[k] > 0 /\ float_vec(call.self)[k] < ONE
          /\ Channels(res)[k] \in 1..254

\* the steps of C3 as the claim words them
C3_Linear(c) ==
    << MulF(3240600, c.x) - MulF(1537200, c.y) - MulF(498600, c.z),
       MulF(1875800, c.y) + MulF(41500, c.z) - MulF(968900, c.x),
       MulF(55700, c.x) - MulF(204000, c.y) + MulF(1057000, c.z) >>

C3_Encoded(ch, e) ==
    \/ ch <= 3130 /\ e = MulF(12920000, ch)
    \/ ch > 3130 /\ e = MulF(1055000, powf(ch, 416666)) - 55000

C3_Clamped(e, c) ==
    \/ e < 0 /\ c = 0
    \/ e > ONE /\ c = ONE
    \/ e \in 0..ONE /\ c = e

\* n is an integer nearest to 255 * c
C3_Stored(c, n) == n \in 0..255 /\ 2 * Abs(255 * c - n * ONE) <= ONE

\* C3: RGBColor::from_xyz is the matrix, then the piecewise gamma encoding,
\* then the clamp to [0, 1], then scaling by 255 and rounding; the test
\* colour XYZ(0.41874, 0.21967, 0.05649) gives RGB(254, 23, 55).
C3_FromXyzSteps ==
    (Done /\ call.op \in {"from_xyz", "convert"} /\ call.T = "RGBColor"
          /\ call.self.T = "XYZColor") =>
        /\ pc = "returned"
        /\ \A i \in 1..3 :
              \E e \in {float_vec(call.self)[i]} :
              \E c \in {clamp(e)} :
                  /\ C3_Encoded(C3_Linear(call.self)[i], e)
                  /\ C3_Clamped(e, c)
                  /\ C3_Stored(c, Channels(res)[i])
        /\ call.self = TestXYZ => res = RGBColor(254, 23, 55)

C3_Witness ==
    /\ pc = "returned"
    /\ call.op = "convert"
    /\ call.T = "RGBColor"
    /\ call.self = TestXYZ
    /\ res = RGBColor(254, 23, 55)

\* the steps of C4 as the claim words them
C4_Decoded(n) ==
    IF n \in 0..10 THEN DivF(DivF(n * ONE, 255 * ONE), 12920000)
    ELSE powf(DivF(DivF(n * ONE, 255 * ONE) + 55000, 1055000), 2400000)

C4_Matrix(v) ==
    XYZColor(
        MulF(412400, v[1]) + MulF(357600, v[2]) + MulF(180500, v[3]),
        MulF(212600, v[1]) + MulF(715200, v[2]) + MulF(72200, v[3]),
        MulF(19300, v[1]) + MulF(119200, v[2]) + MulF(950500, v[3]))

\* C4: RGBColor::into_xyz divides each channel by 255, decodes it (linearly
\* for the channels 0..10, by the power law for 11..255) and applies the
\* inverse matrix; RGB(45, 28, 156) gives XYZ within 0.01 of
\* (0.0750, 0.0379, 0.3178).
C4_IntoXyzSteps ==
    (Done /\ call.op = "into_xyz" /\ call.self.T = "RGBColor") =>
        /\ pc = "returned"
        /\ res = C4_Matrix(<<C4_Decoded(call.self.r), C4_Decoded(call.self.g),
                             C4_Decoded(call.self.b)>>)
        /\ call.self = TestRGB =>
              /\ Abs(res.x - 75000) <= 10000
              /\ Abs(res.y - 37900) <= 10000
              /\ Abs(res.z - 317800) <= 10000

C4_Witness ==
    /\ pc = "returned"
    /\ call.op = "into_xyz"
    /\ call.self = TestRGB
    /\ Abs(res.x - 75000) <= 10000
    /\ Abs(res.y - 37900) <= 10000
    /\ Abs(res.z - 317800) <= 10000

\* the uppercase hexadecimal digit of d in 0..15
C5_Digit(d) ==
    CASE d = 10 -> "A" [] d = 11 -> "B" [] d = 12 -> "C" [] d = 13 -> "D"
      [] d = 14 -> "E" [] d = 15 -> "F"
      [] OTHER -> CHOOSE c \in {"0", "1", "2", "3", "4", "5", "6", "7", "8", "9"} :
                      c = ToString(d)

C5_Pair(v) == <<C5_Digit(v \div 16), C5_Digit(v % 16)>>

\* C5: to_string gives the 7 characters '#', then the two uppercase,
\* zero-padded hexadecimal digits of r, of g and of b; distinct colours give
\* distinct strings; the three test colours give "#000000", "#F4B621" and
\* "#00FF00".
C5_HexString ==
    (Done /\ call.op = "to_string") =>
        /\ pc = "returned"
        /\ res.T = "String"
        /\ Len(res.s) = 7
        /\ res.s = <<"#">> \o C5_Pair(call.self.r) \o C5_Pair(call.self.g)
                       \o C5_Pair(call.self.b)
        /\ \A c \in RGBInputs : c # call.self => to_string(c) # res
        /\ call.self = RGBColor(0, 0, 0)
              => res.s = <<"#", "0", "0", "0", "0", "0", "0">>
        /\ call.self = RGBColor(244, 182, 33)
              => res.s = <<"#", "F", "4", "B", "6", "2", "1">>
        /\ call.self = RGBColor(0, 255, 0)
              => res.s = <<"#", "0", "0", "F", "F", "0", "0">>

C5_Witness ==
    /\ pc = "returned"
    /\ call.op = "to_string"
    /\ call.self = RGBColor(244, 182, 33)
    /\ res.s = <<"#", "F", "4", "B", "6", "2", "1">>

\* C6: write_colored_str returns exactly the set-foreground escape of
\* RGBColor::from_xyz(self.into_xyz()), then the text unchanged, then the
\* reset-foreground escape.
C6_EscapeTextReset ==
    (Done /\ call.op = "write_colored_str") =>
        /\ pc = "returned"
        /\ res.T = "String"
        /\ LET rgb == RGB_from_xyz(into_xyz(call.self))
               set == Fg_Rgb(rgb.r, rgb.g, rgb.b)
               n   == Len(set)
               m   == Len(call.text)
           IN  /\ Len(res.s) = n + m + Len(Fg_Reset)
               /\ SubSeq(res.s, 1, n) = set
               /\ SubSeq(res.s, n + 1, n + m) = call.text
               /\ SubSeq(res.s, n + m + 1, Len(res.s)) = Fg_Reset

C6_Witness ==
    /\ pc = "returned"
    /\ call.op = "write_colored_str"
    /\ call.self = TestXYZ
    /\ call.text = <<ESC, "x">>
    /\ res.s = <<ESC, "[", "3", "8", ";", "2", ";", "2", "5", "4", ";",
                 "2", "3", ";", "5", "5", "m", ESC, "x",
                 ESC, "[", "3", "9", "m">>

\* v is a complete value of the type named T
C7_Valid(v, T) ==
    /\ v.T = T
    /\ T = "RGBColor" => v.r \in 0..255 /\ v.g \in 0..255 /\ v.b \in 0..255
    /\ T = "XYZColor" => v.x \in Int /\ v.y \in Int /\ v.z \in Int
    /\ T = "String" => Len(v.s) > 0

\* C7: from_xyz, into_xyz, convert, write_colored_str and to_string never
\* panic and return a complete value of the target type, for components
\* that are negative or far above 1 too; every colour of the 21 x 21 test
\* grid is written with channels in 0..255.
C7_Total ==
    (Done /\ call.op \in {"from_xyz", "into_xyz", "convert",
                          "write_colored_str", "to_string"}) =>
        /\ pc = "returned"
        /\ C7_Valid(res, call.T)
        /\ (call.op = "write_colored_str" /\ call.self \in GridXYZs) =>
              LET c   == convert(call.self, "RGBColor")
                  set == Fg_Rgb(c.r, c.g, c.b)
              IN  /\ C7_Valid(c, "RGBColor")
                  /\ SubSeq(res.s, 1, Len(set)) = set

C7_Witness ==
    /\ pc = "returned"
    /\ call.op = "write_colored_str"
    /\ call.self = GridXYZ(20, 20)
    /\ call.text = <<Square>>
    /\ res.T = "String"

\* the From<Vec<_>> calls
C8_From == call.op \in {"XYZColor::from", "RGBColor::from"}

\* the fields of a colour, in order
C8_Fields(c) == IF c.T = "XYZColor" THEN <<c.x, c.y, c.z>> ELSE Channels(c)

\* the colour converted back with Into<Vec<_>>
C8_Back(c) == IF c.T = "XYZColor" THEN XYZColor_into(c) ELSE RGBColor_into(c)

\* C8 as claimed: From<Vec<_>> fails for every length other than three.
C8_AnyOtherLengthFails ==
    (Done /\ C8_From /\ Len(call.self.v) # 3) => pc = "panicked"

\* C8 as amended: From<Vec<_>> fails, producing no value, for fewer than
\* three elements; for three or more it succeeds, takes elements 0, 1, 2 in
\* that order and ignores the rest, and Into<Vec<_>> returns those three
\* elements in the same order.
C8_ShortFailsOnly ==
    /\ (Done /\ C8_From /\ Len(call.self.v) < 3)
           => (pc = "panicked" /\ res = Panic)
    /\ (Done /\ C8_From /\ Len(call.self.v) >= 3) =>
           /\ pc = "returned"
           /\ res.T = call.T
           /\ C8_Fields(res) = SubSeq(call.self.v, 1, 3)
           /\ C8_Back(res) = Vec(SubSeq(call.self.v, 1, 3))
    /\ (Done /\ call.op \in {"XYZColor::into", "RGBColor::into"}) =>
           (pc = "returned" /\ res = Vec(C8_Fields(call.self)))

C8_Witness ==
    /\ pc = "returned"
    /\ call.op = "RGBColor::from"
    /\ call.self.v = <<7, 0, 255, 7>>
    /\ res = RGBColor(7, 0, 255)

\* C9: the stored channel of a clamped value c is the integer nearest to
\* 255 * c, an exact half k + 0.5 is stored as k + 1, the stored channel
\* does not decrease as c grows, 0 is stored as 0 and 1 as 255.
C9_RoundHalfAway ==
    (Done /\ call.op = "to_u8") =>
        /\ pc = "returned"
        /\ res.n \in 0..255
        /\ 2 * Abs(255 * call.self - res.n * ONE) <= ONE
        /\ \A k \in 0..254 :
              510 * call.self = (2 * k + 1) * ONE => res.n = k + 1
        /\ \A c \in RoundInputs : c <= call.self => to_u8(c) <= res.n
        /\ call.self = 0 => res.n = 0
        /\ call.self = ONE => res.n = 255

C9_Witness ==
    /\ pc = "returned"
    /\ call.op = "to_u8"
    /\ 510 * call.self = 153 * ONE
    /\ res.n = 77

\* self with one channel raised by one, where it can be
C10_Above(c) ==
    {RGBColor(c.r + 1, c.g, c.b) : x \in {1} \ {256 - c.r}}
    \cup {RGBColor(c.r, c.g + 1, c.b) : x \in {1} \ {256 - c.g}}
    \cup {RGBColor(c.r, c.g, c.b + 1) : x \in {1} \ {256 - c.b}}

\* C10: RGBColor::into_xyz gives x, y, z >= 0, gives XYZ(0, 0, 0) for
\* RGB(0, 0, 0), and none of x, y, z decreases when a channel grows.
C10_NonNegative ==
    (Done /\ call.op = "into_xyz" /\ call.self.T = "RGBColor") =>
        /\ pc = "returned"
        /\ res.x >= 0 /\ res.y >= 0 /\ res.z >= 0
        /\ call.self = RGBColor(0, 0, 0) => res = XYZColor(0, 0, 0)
        /\ \A c \in C10_Above(call.self) :
              LET up == RGB_into_xyz(c)
              IN  res.x <= up.x /\ res.y <= up.y /\ res.z <= up.z

C10_Witness ==
    /\ pc = "returned"
    /\ call.op = "into_xyz"
    /\ call.self = RGBColor(10, 0, 255)
    /\ res.x > 0 /\ res.y > 0 /\ res.z > 0
    /\ RGB_into_xyz(RGBColor(11, 0, 255)).x > res.x

=============================================================================
